---- MODULE Spec2Model ----
(***************************************************************************)
(* State-machine model of the essay exam portal (src/app.py): the exam     *)
(* store, the submission store, the clock read by utcnow(), and the three  *)
(* handlers create_exam, take_exam and grade.                              *)
(*                                                                         *)
(* Texts are sequences of items; the item " " is a whitespace character    *)
(* and every other item is a word.  Times are small naturals.  A float     *)
(* similarity is kept in fixed point, in units of 1/ScoreScale.            *)
(***************************************************************************)
EXTENDS Integers, Sequences, FiniteSets, TLC

\* ------------------------------------------------------------------ bounds
MaxTime == 3
MaxExams == 2
MaxSubs == 2
MaxReqs == 2
MaxCorpus == 3
ScoreScale == 10

\* ------------------------------------------------------------------ users
Students == {"s1", "s2", "s3"}
Staff == {"t1", "t2"}
Users == Students \cup Staff

\* db.users: the role stored with each registered user
role(u) == IF u \in Staff THEN "staff" ELSE "student"

\* ------------------------------------------------------------------ flash messages
Forbidden == "403"
NoFlash == ""
ExamNotFound == "Exam not found"
NotYetOpen == "Exam is not yet open"
Closed == "Exam is closed"
AlreadySubmitted == "You have already submitted this exam"
EmptyEssay == "Essay cannot be empty"
Submitted == "Essay submitted successfully!"
ErrorProcessingExam == "Error processing exam"
SubmissionNotFound == "Submission not found"
ErrorProcessingGrade == "Error processing grade"
InvalidScore == "Invalid score value"
ScoreOutOfRange == "Score must be between 0 and max_score"
Graded == "Submission graded successfully!"
AllFieldsRequired == "All fields are required"
CloseAfterOpen == "Close time must be after open time"
InvalidFormat == "Invalid date format or numeric values"
ExamCreated == "Exam created successfully!"

\* ------------------------------------------------------------------ text
\* str.strip(): drop the leading and the trailing whitespace
RECURSIVE lstrip(_)
lstrip(s) == IF s # << >> /\ Head(s) = " " THEN lstrip(Tail(s)) ELSE s

RECURSIVE rstrip(_)
rstrip(s) == IF s # << >> /\ s[Len(s)] = " " THEN rstrip(SubSeq(s, 1, Len(s) - 1)) ELSE s

strip(s) == rstrip(lstrip(s))

\* int(): the decimal strings the forms may carry; any other string raises ValueError
IntStrings == {"-1", "0", "1", "2", "3"}

IsInt(s) == s \in IntStrings

int(s) == CASE s = "-1" -> -1
            [] s = "0" -> 0
            [] s = "1" -> 1
            [] s = "2" -> 2
            [] s = "3" -> 3

\* datetime.fromisoformat(): the timestamps the forms may carry
DateStrings == {"T1", "T2", "T3"}

IsDate(s) == s \in DateStrings

fromisoformat(s) == CASE s = "T1" -> 1
                      [] s = "T2" -> 2
                      [] s = "T3" -> 3

\* ------------------------------------------------------------------ similarity
\* TfidfVectorizer(lowercase=True)
lower(w) == IF w = "The" THEN "the" ELSE w

\* TfidfVectorizer(stop_words='english')
stop_words == {"the"}

\* the analyzer: words of two or more characters, lower-cased, stop words removed
analyze(text) ==
    LET words == SelectSeq(text, LAMBDA c : c # " ")
        lowered == [i \in 1..Len(words) |-> lower(words[i])]
    IN  SelectSeq(lowered, LAMBDA w : Len(w) >= 2 /\ w \notin stop_words)

\* term frequency of t in an analyzed document
RECURSIVE tf(_, _)
tf(doc, t) == IF doc = << >> THEN 0
              ELSE (IF Head(doc) = t THEN 1 ELSE 0) + tf(Tail(doc), t)

terms(doc) == {doc[i] : i \in 1..Len(doc)}

\* the vocabulary fitted over all the essays
vocabulary(docs) == UNION {terms(docs[i]) : i \in 1..Len(docs)}

\* document frequency of t
df(docs, t) == Cardinality({i \in 1..Len(docs) : t \in terms(docs[i])})

\* smoothed idf, ln((1 + n) / (1 + df)) + 1, in tenths, for n documents
idf_table == << <<10>>,
                <<14, 10>>,
                <<17, 13, 10>>,
                <<19, 15, 12, 10>>,
                <<21, 17, 14, 12, 10>>,
                <<23, 18, 16, 13, 12, 10>>,
                <<24, 20, 17, 15, 13, 11, 10>> >>

idf(docs, t) == idf_table[Len(docs)][df(docs, t)]

tfidf(docs, i, t) == tf(docs[i], t) * idf(docs, t)

RECURSIVE dot(_, _, _, _)
dot(docs, i, j, V) ==
    IF V = {} THEN 0
    ELSE LET t == CHOOSE x \in V : TRUE
         IN  tfidf(docs, i, t) * tfidf(docs, j, t) + dot(docs, i, j, V \ {t})

\* cosine_similarity of rows i and j, rounded down to 1/ScoreScale; a zero row gives 0
cosine_similarity(docs, i, j) ==
    LET V == vocabulary(docs)
        d == dot(docs, i, j, V)
        ni == dot(docs, i, i, V)
        nj == dot(docs, j, j, V)
    IN  IF ni = 0 \/ nj = 0 THEN 0
        ELSE CHOOSE k \in 0..ScoreScale :
                /\ k * k * ni * nj <= ScoreScale * ScoreScale * d * d
                /\ \A m \in (k + 1)..ScoreScale :
                      m * m * ni * nj > ScoreScale * ScoreScale * d * d

\* fit_transform raises ValueError on an empty vocabulary
vectorizer_fails(all_essays) ==
    vocabulary([i \in 1..Len(all_essays) |-> analyze(all_essays[i])]) = {}

Max(S) == CHOOSE x \in S : \A y \in S : y <= x

\* the similarity to the first existing essay in the place of the largest
max_similarity_first(all_essays) ==
    LET docs == [i \in 1..Len(all_essays) |-> analyze(all_essays[i])]
    IN  cosine_similarity(docs, 1, 2)

\* max(similarities) of the new essay (row 1) against every existing essay
max_similarity(all_essays) ==
    LET docs == [i \in 1..Len(all_essays) |-> analyze(all_essays[i])]
    IN  Max({cosine_similarity(docs, 1, j) : j \in 2..Len(docs)})

\* the plagiarism check of take_exam: 0 without prior essays, 0 when the try block
\* raises, else the largest similarity
plagiarism_check(essay_text, existing_essays) ==
    IF existing_essays = << >> THEN 0
    ELSE IF vectorizer_fails(<<essay_text>> \o existing_essays) THEN 0
    ELSE max_similarity(<<essay_text>> \o existing_essays)

\* ------------------------------------------------------------------ state
VARIABLES
    exams,          \* db.exams, in insertion order; an exam's _id is its index
    submissions,    \* db.submissions, in insertion order; a submission's _id is its index
    clock,          \* what datetime.datetime.utcnow() returns
    last,           \* the request answered last: handler, caller, target, clock read, flash,
                    \* and the score the target held before a grade was written
    reqs            \* the take_exam requests in flight, with their local variables

vars == <<exams, submissions, clock, last, reqs>>

\* an optional field of a document: absent, or present with a value
Absent == {}
Some(v) == {v}

\* ------------------------------------------------------------------ request inputs
Methods == {"GET", "POST"}

\* the exam form: a complete one, and one for each way of getting it wrong
GoodForm == [title |-> <<" ", "Essay">>, prompt |-> <<"Write", " ">>,
             open_at |-> "T1", close_at |-> "T2", time_limit |-> "1", max_score |-> "1"]

ExamForms == {GoodForm,
              [GoodForm EXCEPT !.title = <<" ">>],
              [GoodForm EXCEPT !.prompt = << >>],
              [GoodForm EXCEPT !.open_at = "soon"],
              [GoodForm EXCEPT !.close_at = ""],
              [GoodForm EXCEPT !.close_at = "T1"],
              [GoodForm EXCEPT !.open_at = "T2"],
              [GoodForm EXCEPT !.time_limit = "x"]}

\* the exam forms of the requests to create_exam taken on their own: other windows,
\* inverted and empty ones, and numbers at and below zero
DraftForms == ExamForms \cup
              {[GoodForm EXCEPT !.close_at = "T3"],
               [GoodForm EXCEPT !.open_at = "T3"],
               [GoodForm EXCEPT !.open_at = "T2", !.close_at = "T1"],
               [GoodForm EXCEPT !.time_limit = "0"],
               [GoodForm EXCEPT !.time_limit = "-1"],
               [GoodForm EXCEPT !.max_score = "0"],
               [GoodForm EXCEPT !.max_score = "-1"],
               [GoodForm EXCEPT !.max_score = "many"]}

\* the essay field of the exam page
EssayInputs == {<<" ">>, <<" ", "fox", " ">>, <<"The">>}

\* essays that share some of their terms, one of them with upper case and a stop word
ScoredEssays == {<<"fox">>, <<"The", " ", "fox", " ", "dog">>, <<"cat">>}

\* the grading form: its score and comments fields
GradeForms == {[score |-> "x", comments |-> <<"ok">>],
               [score |-> "-1", comments |-> <<"ok">>],
               [score |-> "0", comments |-> <<" ">>],
               [score |-> "1", comments |-> <<"ok", " ">>],
               [score |-> "2", comments |-> <<"ok">>]}

\* the callers of each handler: a student and a member of staff try every page
ExamAuthors == {"t1", "s1"}
ExamTakers == {"s1", "s2", "t1"}
ExamWriters == {"t1", "t2", "s1"}
Graders == {"t1", "t2", "s1"}

ExamIds == 1..MaxExams
SubIds == 1..MaxSubs
Slots == 1..MaxReqs

\* ------------------------------------------------------------------ queries
\* db.exams.find_one({"_id": exam_id})
exam_found(exam_id) == exam_id \in 1..Len(exams)

\* db.submissions.find_one({"_id": sub_id})
sub_found(sub_id) == sub_id \in 1..Len(submissions)

\* db.submissions.find_one({"exam_id": exam_id, "user_id": user_id})
existing_submission(subs, exam_id, user_id) ==
    \E i \in 1..Len(subs) : subs[i].exam_id = exam_id /\ subs[i].user_id = user_id

\* the essays of every exam, the filter on exam_id left out
existing_essays_all_exams(subs, exam_id) ==
    [i \in 1..Len(subs) |-> subs[i].essay_text]

\* [s["essay_text"] for s in db.submissions.find({"exam_id": exam_id})]
existing_essays(subs, exam_id) ==
    LET of_exam == SelectSeq(subs, LAMBDA s : s.exam_id = exam_id)
    IN  [i \in 1..Len(of_exam) |-> of_exam[i].essay_text]

\* the response of a handler that runs in one step
Respond(op, u, id, now, flash) ==
    last' = [op |-> op, user |-> u, id |-> id, now |-> now, flash |-> flash,
             prior |-> Absent]

\* ------------------------------------------------------------------ create_exam
\* the date validation with < in the place of <=
create_exam_flash_strict(form) ==
    IF strip(form.title) = << >> \/ strip(form.prompt) = << >> \/ form.open_at = ""
       \/ form.close_at = "" \/ form.time_limit = "" \/ form.max_score = ""
    THEN AllFieldsRequired
    ELSE IF ~IsDate(form.open_at) \/ ~IsDate(form.close_at) THEN InvalidFormat
    ELSE IF fromisoformat(form.close_at) < fromisoformat(form.open_at) THEN CloseAfterOpen
    ELSE IF ~IsInt(form.time_limit) \/ ~IsInt(form.max_score) THEN InvalidFormat
    ELSE ExamCreated

\* the outcome of the POST branch of create_exam, before anything is stored
create_exam_flash(form) ==
    IF strip(form.title) = << >> \/ strip(form.prompt) = << >> \/ form.open_at = ""
       \/ form.close_at = "" \/ form.time_limit = "" \/ form.max_score = ""
    THEN AllFieldsRequired
    ELSE IF ~IsDate(form.open_at) \/ ~IsDate(form.close_at) THEN InvalidFormat
    ELSE IF fromisoformat(form.close_at) <= fromisoformat(form.open_at) THEN CloseAfterOpen
    ELSE IF ~IsInt(form.time_limit) \/ ~IsInt(form.max_score) THEN InvalidFormat
    ELSE ExamCreated

\* the document inserted by create_exam (created_at is never read and is left out)
new_exam(form, u) ==
    [title |-> strip(form.title),
     prompt |-> strip(form.prompt),
     open_at |-> fromisoformat(form.open_at),
     close_at |-> fromisoformat(form.close_at),
     time_limit_min |-> int(form.time_limit),
     max_score |-> int(form.max_score),
     created_by |-> u]

\* one request to /staff/exams/create
CreateExam(u, method, form) ==
    /\ Len(exams) < MaxExams
    /\ UNCHANGED <<submissions, clock, reqs>>
    /\ IF role(u) # "staff"
       THEN /\ Respond("create_exam", u, 0, 0, Forbidden)
            /\ UNCHANGED exams
       ELSE IF method = "GET"
       THEN /\ Respond("create_exam", u, 0, 0, NoFlash)
            /\ UNCHANGED exams
       ELSE IF create_exam_flash(form) # ExamCreated
       THEN /\ Respond("create_exam", u, 0, 0, create_exam_flash(form))
            /\ UNCHANGED exams
       ELSE /\ exams' = Append(exams, new_exam(form, u))
            /\ Respond("create_exam", u, Len(exams) + 1, 0, ExamCreated)

\* ------------------------------------------------------------------ take_exam
\* a window that never closes
window_guard_no_close(exam, now) ==
    IF now < exam.open_at THEN NotYetOpen ELSE NoFlash

\* a window that excludes its two ends
window_guard_exclusive(exam, now) ==
    IF now <= exam.open_at THEN NotYetOpen
    ELSE IF now >= exam.close_at THEN Closed
    ELSE NoFlash

\* the two checks of the submission window; NoFlash when the exam is open
window_guard(exam, now) ==
    IF now < exam.open_at THEN NotYetOpen
    ELSE IF now > exam.close_at THEN Closed
    ELSE NoFlash

\* the guards without the lookup of an existing submission
take_exam_guard_no_lookup(subs, exam, exam_id, u, now) == window_guard(exam, now)

\* the guards with the lookup moved before the window checks
take_exam_guard_lookup_first(subs, exam, exam_id, u, now) ==
    IF existing_submission(subs, exam_id, u) THEN AlreadySubmitted
    ELSE window_guard(exam, now)

\* the guards of take_exam that come before the form is read, in the order of
\* the code; NoFlash when all of them pass
take_exam_guard(subs, exam, exam_id, u, now) ==
    IF window_guard(exam, now) # NoFlash THEN window_guard(exam, now)
    ELSE IF existing_submission(subs, exam_id, u) THEN AlreadySubmitted
    ELSE NoFlash

\* the document inserted by take_exam
new_submission(exam_id, u, essay_text, submitted_at, plagiarism_score) ==
    [exam_id |-> exam_id,
     user_id |-> u,
     essay_text |-> essay_text,
     submitted_at |-> submitted_at,
     plagiarism_score |-> plagiarism_score,
     score |-> Absent,
     comments |-> Absent,
     graded_at |-> Absent,
     graded_by |-> Absent]

\* the insert that ends take_exam, with the flash that goes with it
insert_one(u, exam_id, essay_text, now, elapsed, plagiarism_score, flash) ==
    /\ clock + elapsed <= MaxTime
    /\ clock' = clock + elapsed
    /\ submissions' = Append(submissions,
           new_submission(exam_id, u, essay_text, clock + elapsed, plagiarism_score))
    /\ Respond("take_exam", u, exam_id, now, flash)

\* the POST branch with the `return` of the empty-essay check missing
post_essay_no_return(u, exam_id, essay, now, elapsed) ==
    LET essay_text == strip(essay)
        corpus == existing_essays(submissions, exam_id)
    IN  insert_one(u, exam_id, essay_text, now, elapsed,
                   plagiarism_check(essay_text, corpus),
                   IF essay_text = << >> THEN EmptyEssay ELSE Submitted)

\* the POST branch without the try block around the plagiarism check
post_essay_uncaught(u, exam_id, essay, now, elapsed) ==
    LET essay_text == strip(essay)
        corpus == existing_essays(submissions, exam_id)
    IN  IF essay_text = << >>
        THEN /\ Respond("take_exam", u, exam_id, now, EmptyEssay)
             /\ UNCHANGED <<submissions, clock>>
        ELSE IF corpus # << >> /\ vectorizer_fails(<<essay_text>> \o corpus)
        THEN /\ Respond("take_exam", u, exam_id, now, ErrorProcessingExam)
             /\ UNCHANGED <<submissions, clock>>
        ELSE insert_one(u, exam_id, essay_text, now, elapsed,
                        plagiarism_check(essay_text, corpus), Submitted)

\* the POST branch of take_exam: the empty-essay check, the plagiarism check, the insert
post_essay(u, exam_id, essay, now, elapsed) ==
    LET essay_text == strip(essay)
        corpus == existing_essays(submissions, exam_id)
    IN  IF essay_text = << >>
        THEN /\ Respond("take_exam", u, exam_id, now, EmptyEssay)
             /\ UNCHANGED <<submissions, clock>>
        ELSE insert_one(u, exam_id, essay_text, now, elapsed,
                        plagiarism_check(essay_text, corpus), Submitted)

\* the request with the form read, and the empty essay turned away, before the
\* window and the lookup are checked
TakeExam_essay_first(u, exam_id, method, essay, elapsed) ==
    LET now == clock
        guard == take_exam_guard(submissions, exams[exam_id], exam_id, u, now)
    IN  /\ UNCHANGED <<exams, reqs>>
        /\ IF role(u) # "student"
           THEN /\ Respond("take_exam", u, exam_id, now, Forbidden)
                /\ UNCHANGED <<submissions, clock>>
           ELSE IF ~exam_found(exam_id)
           THEN /\ Respond("take_exam", u, exam_id, now, ExamNotFound)
                /\ UNCHANGED <<submissions, clock>>
           ELSE IF method = "POST" /\ strip(essay) = << >>
           THEN /\ Respond("take_exam", u, exam_id, now, EmptyEssay)
                /\ UNCHANGED <<submissions, clock>>
           ELSE IF guard # NoFlash
           THEN /\ Respond("take_exam", u, exam_id, now, guard)
                /\ UNCHANGED <<submissions, clock>>
           ELSE IF method = "GET"
           THEN /\ Respond("take_exam", u, exam_id, now, NoFlash)
                /\ UNCHANGED <<submissions, clock>>
           ELSE post_essay(u, exam_id, essay, now, elapsed)

\* one request to /exam/<exam_id>, run without interleaving; `elapsed` is the time
\* that passes between the two reads of the clock
TakeExam(u, exam_id, method, essay, elapsed) ==
    LET now == clock
        guard == take_exam_guard(submissions, exams[exam_id], exam_id, u, now)
    IN  /\ UNCHANGED <<exams, reqs>>
        /\ IF role(u) # "student"
           THEN /\ Respond("take_exam", u, exam_id, now, Forbidden)
                /\ UNCHANGED <<submissions, clock>>
           ELSE IF ~exam_found(exam_id)
           THEN /\ Respond("take_exam", u, exam_id, now, ExamNotFound)
                /\ UNCHANGED <<submissions, clock>>
           ELSE IF guard # NoFlash
           THEN /\ Respond("take_exam", u, exam_id, now, guard)
                /\ UNCHANGED <<submissions, clock>>
           ELSE IF method = "GET"
           THEN /\ Respond("take_exam", u, exam_id, now, NoFlash)
                /\ UNCHANGED <<submissions, clock>>
           ELSE post_essay(u, exam_id, essay, now, elapsed)

\* ------------------------------------------------------------------ take_exam, step by step
\* A request to /exam/<exam_id> as the steps between which other requests and the
\* clock may move: each step is one round trip to the database.
Idle == [pc |-> "idle", user |-> "none", exam_id |-> 0, method |-> "none",
         essay_text |-> << >>, now |-> 0, plagiarism_score |-> 0, flash |-> NoFlash]

Return(r, flash) == reqs' = [reqs EXCEPT ![r].pc = "done", ![r].flash = flash]

\* find the exam, read the clock, check the window
Begin(r, u, exam_id, method, essay) ==
    /\ reqs[r].pc = "idle"
    /\ \A q \in 1..(r - 1) : reqs[q].pc # "idle"
    /\ UNCHANGED <<exams, submissions, clock, last>>
    /\ LET started == [Idle EXCEPT !.user = u, !.exam_id = exam_id, !.method = method,
                                   !.essay_text = strip(essay), !.now = clock]
       IN  IF role(u) # "student"
           THEN reqs' = [reqs EXCEPT ![r] = [started EXCEPT !.pc = "done",
                                                            !.flash = Forbidden]]
           ELSE IF ~exam_found(exam_id)
           THEN reqs' = [reqs EXCEPT ![r] = [started EXCEPT !.pc = "done",
                                                            !.flash = ExamNotFound]]
           ELSE IF window_guard(exams[exam_id], clock) # NoFlash
           THEN reqs' = [reqs EXCEPT ![r] = [started EXCEPT !.pc = "done",
                                   !.flash = window_guard(exams[exam_id], clock)]]
           ELSE reqs' = [reqs EXCEPT ![r] = [started EXCEPT !.pc = "find_one"]]

\* look for a submission of this student, then read the form
FindOne(r) ==
    /\ reqs[r].pc = "find_one"
    /\ UNCHANGED <<exams, submissions, clock, last>>
    /\ IF existing_submission(submissions, reqs[r].exam_id, reqs[r].user)
       THEN Return(r, AlreadySubmitted)
       ELSE IF reqs[r].method = "GET" THEN Return(r, NoFlash)
       ELSE IF reqs[r].essay_text = << >> THEN Return(r, EmptyEssay)
       ELSE reqs' = [reqs EXCEPT ![r].pc = "find"]

\* read the essays of the exam and score the new one against them
Find(r) ==
    /\ reqs[r].pc = "find"
    /\ UNCHANGED <<exams, submissions, clock, last>>
    /\ reqs' = [reqs EXCEPT ![r].pc = "insert_one",
                            ![r].plagiarism_score =
                                plagiarism_check(reqs[r].essay_text,
                                    existing_essays(submissions, reqs[r].exam_id))]

\* read the clock again and insert the submission
InsertOne(r) ==
    /\ reqs[r].pc = "insert_one"
    /\ UNCHANGED <<exams, clock, last>>
    /\ submissions' = Append(submissions,
           new_submission(reqs[r].exam_id, reqs[r].user, reqs[r].essay_text, clock,
                          reqs[r].plagiarism_score))
    /\ Return(r, Submitted)

\* ------------------------------------------------------------------ grade
\* an update that writes the grading fields only when the score is absent
graded_once(sub, score, comments, now, u) ==
    IF sub.score # Absent THEN sub
    ELSE [sub EXCEPT !.score = Some(score),
                     !.comments = Some(comments),
                     !.graded_at = Some(now),
                     !.graded_by = Some(u)]

\* an update that also stamps the submission with the time of the grading
graded_stamped(sub, score, comments, now, u) ==
    [sub EXCEPT !.score = Some(score),
                !.comments = Some(comments),
                !.graded_at = Some(now),
                !.graded_by = Some(u),
                !.submitted_at = now]

\* the fields written by the update_one of grade
graded(sub, score, comments, now, u) ==
    [sub EXCEPT !.score = Some(score),
                !.comments = Some(comments),
                !.graded_at = Some(now),
                !.graded_by = Some(u)]

\* an ownership check that any exam passes
owns_exam_any(sub, u) == exam_found(sub.exam_id)

\* is the caller the creator of the exam the submission belongs to
owns_exam(sub, u) == exam_found(sub.exam_id) /\ exams[sub.exam_id].created_by = u

\* the score validation with the upper bound off by one
score_in_range_off_by_one(score, exam) == ~(score < 0 \/ score > exam.max_score + 1)

\* the score validation of grade
score_in_range(score, exam) == ~(score < 0 \/ score > exam.max_score)

\* one request to /staff/grade/<sub_id>
Grade(u, sub_id, method, form) ==
    LET sub == submissions[sub_id]
        exam == exams[sub.exam_id]
    IN  /\ UNCHANGED <<exams, clock, reqs>>
        /\ IF role(u) # "staff"
           THEN /\ Respond("grade", u, sub_id, 0, Forbidden)
                /\ UNCHANGED submissions
           ELSE IF ~sub_found(sub_id)
           THEN /\ Respond("grade", u, sub_id, 0, SubmissionNotFound)
                /\ UNCHANGED submissions
           ELSE IF ~owns_exam(sub, u)
           \* abort(403) raises inside the try block and `except Exception` catches it
           THEN /\ Respond("grade", u, sub_id, 0, ErrorProcessingGrade)
                /\ UNCHANGED submissions
           ELSE IF method = "GET"
           THEN /\ Respond("grade", u, sub_id, 0, NoFlash)
                /\ UNCHANGED submissions
           ELSE IF ~IsInt(form.score)
           THEN /\ Respond("grade", u, sub_id, 0, InvalidScore)
                /\ UNCHANGED submissions
           ELSE IF ~score_in_range(int(form.score), exam)
           THEN /\ Respond("grade", u, sub_id, 0, ScoreOutOfRange)
                /\ UNCHANGED submissions
           ELSE /\ submissions' = [submissions EXCEPT ![sub_id] =
                        graded(sub, int(form.score), strip(form.comments), clock, u)]
                /\ last' = [op |-> "grade", user |-> u, id |-> sub_id, now |-> 0,
                            flash |-> Graded, prior |-> sub.score]

\* ------------------------------------------------------------------ clock
Tick ==
    /\ clock < MaxTime
    /\ clock' = clock + 1
    /\ UNCHANGED <<exams, submissions, last, reqs>>

\* ------------------------------------------------------------------ specifications
Init ==
    /\ exams = << >>
    /\ submissions = << >>
    /\ clock = 0
    /\ last = [op |-> "none", user |-> "none", id |-> 0, now |-> 0, flash |-> NoFlash,
               prior |-> Absent]
    /\ reqs = [r \in Slots |-> Idle]

DoCreateExam ==
    \E u \in ExamAuthors, method \in Methods, form \in ExamForms :
        CreateExam(u, method, form)

DoTakeExam ==
    \E u \in ExamTakers, exam_id \in ExamIds, method \in Methods, essay \in EssayInputs,
       elapsed \in 0..1 :
        /\ TakeExam(u, exam_id, method, essay, elapsed)
        /\ Len(submissions') <= MaxSubs

\* the exam lifecycle and the submission workflow, one request at a time
NextSubmit == DoCreateExam \/ DoTakeExam \/ Tick

SpecSubmit == Init /\ [][NextSubmit]_vars

DoSubmit ==
    \E u \in Students \cap ExamTakers, exam_id \in ExamIds,
       essay \in {<<" ">>, <<" ", "fox", " ">>} :
        /\ TakeExam(u, exam_id, "POST", essay, 0)
        /\ Len(submissions') <= MaxSubs

DoGrade ==
    \E u \in Graders, sub_id \in SubIds, method \in Methods, form \in GradeForms :
        Grade(u, sub_id, method, form)

\* all three handlers, one request at a time
NextGrade == DoCreateExam \/ DoSubmit \/ DoGrade \/ Tick

SpecGrade == Init /\ [][NextGrade]_vars

DoDraftExam ==
    \E u \in ExamWriters, method \in Methods, form \in DraftForms :
        CreateExam(u, method, form)

\* the exam lifecycle on its own: requests to create_exam, good and bad
NextExams == DoDraftExam

SpecExams == Init /\ [][NextExams]_vars

DoOpenExam == CreateExam("t1", "POST", GoodForm)

DoScore ==
    /\ Len(submissions) < MaxCorpus
    /\ \E u \in Students, exam_id \in ExamIds, essay \in ScoredEssays :
          TakeExam(u, exam_id, "POST", essay, 0)

\* a class of three that submits essays with terms in common, one request at a time
NextScore == DoOpenExam \/ DoScore \/ Tick

SpecScore == Init /\ [][NextScore]_vars

DoBegin ==
    \E r \in Slots, u \in Students \cap ExamTakers, exam_id \in ExamIds,
       essay \in {<<" ">>, <<" ", "fox", " ">>} :
        Begin(r, u, exam_id, "POST", essay)

DoFindOne == \E r \in Slots : FindOne(r)

DoFind == \E r \in Slots : Find(r)

DoInsertOne == \E r \in Slots : InsertOne(r)

\* submit requests whose steps interleave with each other and with the clock
NextSteps == DoOpenExam \/ DoBegin \/ DoFindOne \/ DoFind \/ DoInsertOne \/ Tick

SpecSteps == Init /\ [][NextSteps]_vars

\* ------------------------------------------------------------------ properties
\* stated on the documents themselves, not through the queries of the handlers

\* student u has a submission for exam e in the store
HasSubmitted(u, e) ==
    \E i \in 1..Len(submissions) :
        submissions[i].exam_id = e /\ submissions[i].user_id = u

\* the number of submissions of student u for exam e
Count(u, e) ==
    Cardinality({i \in 1..Len(submissions) :
        submissions[i].exam_id = e /\ submissions[i].user_id = u})

\* the essay has a character that is not whitespace
HasText(essay) == \E i \in 1..Len(essay) : essay[i] # " "

\* the step appends exactly one submission, of student u for exam e
AppendsOne(u, e) ==
    /\ Len(submissions') = Len(submissions) + 1
    /\ SubSeq(submissions', 1, Len(submissions)) = submissions
    /\ submissions'[Len(submissions')].exam_id = e
    /\ submissions'[Len(submissions')].user_id = u

\* C1: with requests run one at a time, after any sequence of create-exam, submit
\* and grade requests the store holds at most one submission for every
\* (exam, student) pair.
C1_AtMostOneSubmission ==
    \A i, j \in 1..Len(submissions) :
        (submissions[i].exam_id = submissions[j].exam_id
            /\ submissions[i].user_id = submissions[j].user_id) => i = j

\* C1 witness: a second submit of a student was turned away, in a store that also
\* holds a graded submission
C1_Witness ==
    /\ last.op = "take_exam"
    /\ last.flash = AlreadySubmitted
    /\ HasSubmitted(last.user, last.id)
    /\ Len(submissions) >= 2
    /\ \E i \in 1..Len(submissions) : submissions[i].score # Absent

\* C2: when two submit requests of the same student for the same exam interleave,
\* exactly one submission persists for the pair and the other request ends with
\* AlreadySubmitted.
C2_RaceKeepsOne ==
    \A r1, r2 \in Slots :
        (/\ r1 # r2
         /\ reqs[r1].pc = "done" /\ reqs[r2].pc = "done"
         /\ reqs[r1].user = reqs[r2].user /\ reqs[r1].exam_id = reqs[r2].exam_id
         /\ reqs[r1].flash = Submitted
         /\ reqs[r2].flash \in {Submitted, AlreadySubmitted})
        => (/\ reqs[r2].flash = AlreadySubmitted
            /\ Count(reqs[r1].user, reqs[r1].exam_id) = 1)

\* C3 as stated: once a submit has succeeded, every later submit of that student
\* for that exam fails with AlreadySubmitted whatever the time, and stores nothing.
C3_AlwaysAlreadySubmitted ==
    [][LET u == last'.user
           e == last'.id
       IN  \A essay \in EssayInputs, elapsed \in 0..1 :
            (/\ u \in Students
             /\ e \in 1..Len(exams)
             /\ HasSubmitted(u, e)
             /\ TakeExam(u, e, "POST", essay, elapsed))
            => (last'.flash = AlreadySubmitted /\ submissions' = submissions)]_vars

\* C3 as amended: once a submit has succeeded, every later submit of that student
\* for that exam stores nothing and fails: with AlreadySubmitted while the exam is
\* open, with Closed after close_at and with NotYetOpen before open_at.
C3_ResubmitRejected ==
    [][LET u == last'.user
           e == last'.id
       IN  \A essay \in EssayInputs, elapsed \in 0..1 :
            (/\ u \in Students
             /\ e \in 1..Len(exams)
             /\ HasSubmitted(u, e)
             /\ TakeExam(u, e, "POST", essay, elapsed))
            => (/\ submissions' = submissions
                /\ clock < exams[e].open_at => last'.flash = NotYetOpen
                /\ clock > exams[e].close_at => last'.flash = Closed
                /\ (exams[e].open_at <= clock /\ clock <= exams[e].close_at)
                      => last'.flash = AlreadySubmitted)]_vars

\* C3 witness: a student who has submitted posts again after the exam has closed
C3_Witness ==
    /\ last.op = "take_exam"
    /\ last.flash = Closed
    /\ HasSubmitted(last.user, last.id)
    /\ last.now > exams[last.id].close_at

\* C4: a submit with now before open_at fails with NotYetOpen and one with now after
\* close_at fails with Closed, for every student, essay and store; neither creates
\* a submission.
C4_OutsideWindow ==
    [][LET u == last'.user
           e == last'.id
       IN  \A method \in Methods, essay \in EssayInputs, elapsed \in 0..1 :
            (/\ u \in Students
             /\ e \in 1..Len(exams)
             /\ TakeExam(u, e, method, essay, elapsed))
            => (/\ clock < exams[e].open_at
                      => (last'.flash = NotYetOpen /\ submissions' = submissions)
                /\ clock > exams[e].close_at
                      => (last'.flash = Closed /\ submissions' = submissions))]_vars

\* C4 witness: a student who has not submitted is turned away after close_at, while
\* the store holds submissions of others
C4_Witness ==
    /\ last.op = "take_exam"
    /\ last.flash = Closed
    /\ last.now > exams[last.id].close_at
    /\ ~HasSubmitted(last.user, last.id)
    /\ submissions # << >>

\* C5: the window includes both ends: a submit with now = open_at or now = close_at,
\* by a student without a submission for the exam and with an essay that is not
\* blank, succeeds and stores exactly one new submission.
C5_InclusiveWindow ==
    [][LET u == last'.user
           e == last'.id
       IN  \A essay \in EssayInputs, elapsed \in 0..1 :
            (/\ u \in Students
             /\ e \in 1..Len(exams)
             /\ clock = exams[e].open_at \/ clock = exams[e].close_at
             /\ ~HasSubmitted(u, e)
             /\ HasText(essay)
             /\ TakeExam(u, e, "POST", essay, elapsed))
            => (last'.flash = Submitted /\ AppendsOne(u, e))]_vars

\* C5 witness: a submit at close_at has succeeded after one at open_at
C5_Witness ==
    /\ last.op = "take_exam"
    /\ last.flash = Submitted
    /\ last.now = exams[last.id].close_at
    /\ \E i \in 1..Len(submissions) :
          submissions[i].submitted_at = exams[submissions[i].exam_id].open_at

\* C6: a submit that fails with NotYetOpen, Closed, AlreadySubmitted or EmptyEssay
\* leaves the store as it was: the same submissions and exams, field by field.
C6_FailedSubmitFrame ==
    [][LET u == last'.user
           e == last'.id
       IN  \A method \in Methods, essay \in EssayInputs, elapsed \in 0..1 :
            (/\ TakeExam(u, e, method, essay, elapsed)
             /\ last'.flash \in {NotYetOpen, Closed, AlreadySubmitted, EmptyEssay})
            => (submissions' = submissions /\ exams' = exams)]_vars

\* C6 witness: a blank essay was turned away from a store that holds a submission
C6_Witness ==
    /\ last.op = "take_exam"
    /\ last.flash = EmptyEssay
    /\ submissions # << >>

\* the essays stored for exam e, in the order of the store
EssaysOf(subs, e) ==
    LET idx == {i \in 1..Len(subs) : subs[i].exam_id = e}
        Nth[n \in 1..Cardinality(idx)] ==
            CHOOSE i \in idx : Cardinality({j \in idx : j <= i}) = n
    IN  [n \in 1..Cardinality(idx) |-> subs[Nth[n]].essay_text]

\* the vectorizer finds no term in the essay nor in any essay stored for exam e
NoVocabulary(essay, e) ==
    /\ EssaysOf(submissions, e) # << >>
    /\ \A w \in {essay[i] : i \in 1..Len(essay)}
                  \cup UNION {{t[i] : i \in 1..Len(t)} :
                         t \in {EssaysOf(submissions, e)[n] :
                                  n \in 1..Len(EssaysOf(submissions, e))}} :
          w = " " \/ Len(w) < 2 \/ lower(w) \in stop_words

\* C7: when the similarity computation fails inside a submit whose guards all pass,
\* the submit still succeeds: one submission is stored, with plagiarism score 0, and
\* no error is reported.
C7_FailureScoresZero ==
    [][LET u == last'.user
           e == last'.id
       IN  \A essay \in EssayInputs, elapsed \in 0..1 :
            (/\ u \in Students
             /\ e \in 1..Len(exams)
             /\ exams[e].open_at <= clock /\ clock <= exams[e].close_at
             /\ ~HasSubmitted(u, e)
             /\ HasText(essay)
             /\ NoVocabulary(essay, e)
             /\ TakeExam(u, e, "POST", essay, elapsed))
            => (/\ last'.flash = Submitted
                /\ AppendsOne(u, e)
                /\ submissions'[Len(submissions')].plagiarism_score = 0)]_vars

\* C7 witness: the newest submission was stored although its essay and the essays
\* stored before it for the exam hold stop words only
C7_Witness ==
    /\ last.op = "take_exam"
    /\ last.flash = Submitted
    /\ Len(submissions) >= 2
    /\ LET s == submissions[Len(submissions)]
           before == SubSeq(submissions, 1, Len(submissions) - 1)
       IN  /\ EssaysOf(before, s.exam_id) # << >>
           /\ vectorizer_fails(<<s.essay_text>> \o EssaysOf(before, s.exam_id))
           /\ s.plagiarism_score = 0

\* C8: the first submission stored for an exam has plagiarism score 0, whatever its
\* essay and whatever is stored for other exams.
C8_FirstScoresZero ==
    \A i \in 1..Len(submissions) :
        (\A j \in 1..(i - 1) : submissions[j].exam_id # submissions[i].exam_id)
            => submissions[i].plagiarism_score = 0

\* C8 witness: the first submission of an exam repeats an essay, with terms in it,
\* that is stored for another exam
C8_Witness ==
    \E i, j \in 1..Len(submissions) :
        /\ j < i
        /\ submissions[j].exam_id # submissions[i].exam_id
        /\ submissions[j].essay_text = submissions[i].essay_text
        /\ analyze(submissions[i].essay_text) # << >>
        /\ submissions[i].plagiarism_score = 0

\* C9: a grade request of a member of staff who did not create the submission's exam
\* fails as NotOwner (403) and changes no field of any submission, whatever the score.
C9_NotOwnerForbidden ==
    [][LET u == last'.user
           sub_id == last'.id
       IN  \A method \in Methods, form \in GradeForms :
            (/\ u \in Staff
             /\ sub_id \in 1..Len(submissions)
             /\ exams[submissions[sub_id].exam_id].created_by # u
             /\ Grade(u, sub_id, method, form))
            => (last'.flash = Forbidden /\ submissions' = submissions)]_vars

\* the scores stored lie between 0 and the max_score of their exam
ScoresInRange ==
    \A i \in 1..Len(submissions) : \A v \in submissions[i].score :
        0 <= v /\ v <= exams[submissions[i].exam_id].max_score

\* a POST of the exam's creator with a numeric score is accepted when the score lies
\* between 0 and max_score, and is else rejected without a change to the store
GradeAcceptsInRange ==
    LET u == last'.user
        sub_id == last'.id
    IN  \A form \in GradeForms :
         (/\ u \in Staff
          /\ sub_id \in 1..Len(submissions)
          /\ exams[submissions[sub_id].exam_id].created_by = u
          /\ form.score \in IntStrings
          /\ Grade(u, sub_id, "POST", form))
         => IF 0 <= int(form.score)
                /\ int(form.score) <= exams[submissions[sub_id].exam_id].max_score
            THEN /\ last'.flash = Graded
                 /\ submissions'[sub_id].score = {int(form.score)}
            ELSE /\ last'.flash = ScoreOutOfRange
                 /\ submissions' = submissions

\* C10: grading accepts a score iff 0 <= score <= max_score (max_score is accepted,
\* max_score + 1 and -1 are rejected as ScoreOutOfRange with nothing changed), so
\* every stored score lies between 0 and the max_score of its exam.
C10_ScoreBounds == []ScoresInRange /\ [][GradeAcceptsInRange]_vars

\* C10 witness: a submission graded with max_score has kept that score through a
\* rejected request
C10_Witness ==
    /\ last.op = "grade"
    /\ last.flash = ScoreOutOfRange
    /\ submissions[last.id].score = {exams[submissions[last.id].exam_id].max_score}

\* C11: grading again is permitted and overwrites: a second successful grade request
\* on a graded submission replaces score, comments, graded_at and graded_by by the
\* values of the second request, and the values of the first are no longer stored.
C11_RegradeOverwrites ==
    [][LET u == last'.user
           sub_id == last'.id
       IN  \A form \in GradeForms :
            (/\ u \in Staff
             /\ sub_id \in 1..Len(submissions)
             /\ submissions[sub_id].score # Absent
             /\ exams[submissions[sub_id].exam_id].created_by = u
             /\ form.score \in IntStrings
             /\ 0 <= int(form.score)
             /\ int(form.score) <= exams[submissions[sub_id].exam_id].max_score
             /\ Grade(u, sub_id, "POST", form))
            => (/\ last'.flash = Graded
                /\ submissions'[sub_id].score = {int(form.score)}
                /\ submissions'[sub_id].comments = {strip(form.comments)}
                /\ submissions'[sub_id].graded_at = {clock}
                /\ submissions'[sub_id].graded_by = {u})]_vars

\* C11 witness: a graded submission was graded again, with another score, after its
\* submission
C11_Witness ==
    /\ last.op = "grade"
    /\ last.flash = Graded
    /\ last.prior # Absent
    /\ last.prior # submissions[last.id].score
    /\ submissions[last.id].graded_at = {clock}
    /\ submissions[last.id].submitted_at < clock

\* every exam in the store closes after it opens
ExamsWindowed == \A e \in 1..Len(exams) : exams[e].close_at > exams[e].open_at

\* a request to create an exam whose close_at is not after its open_at stores no
\* exam; when it is a POST of a member of staff with every field filled in, it is
\* answered "Close time must be after open time"
RejectsBadWindow ==
    LET u == last'.user
    IN  \A method \in Methods, form \in DraftForms :
         (/\ form.open_at \in DateStrings
          /\ form.close_at \in DateStrings
          /\ fromisoformat(form.close_at) <= fromisoformat(form.open_at)
          /\ CreateExam(u, method, form))
         => (/\ exams' = exams
             /\ last'.flash # ExamCreated
             /\ (u \in Staff /\ method = "POST" /\ HasText(form.title)
                    /\ HasText(form.prompt) /\ form.time_limit # ""
                    /\ form.max_score # "")
                   => last'.flash = CloseAfterOpen)

\* C12: exam creation rejects every input with close_at <= open_at, close_at =
\* open_at included, and stores no exam in that case, so every exam in the store has
\* close_at > open_at.
C12_CloseAfterOpen == []ExamsWindowed /\ [][RejectsBadWindow]_vars

\* C12 witness: a window that does not open was turned away from a store that
\* holds an exam with the longest window
C12_Witness ==
    /\ last.op = "create_exam"
    /\ last.flash = CloseAfterOpen
    /\ \E e \in 1..Len(exams) : exams[e].close_at = exams[e].open_at + 2

\* C13: exam creation rejects every input with time_limit <= 0 or max_score < 0 and
\* stores no exam in that case, so every exam in the store has time_limit_min > 0 and
\* max_score >= 0.
C13_NumbersValidated ==
    \A e \in 1..Len(exams) : exams[e].time_limit_min > 0 /\ exams[e].max_score >= 0

\* the fields of a submission that are set when it is created
Created(sub) == <<sub.exam_id, sub.user_id, sub.essay_text, sub.submitted_at,
                  sub.plagiarism_score>>

\* C14: plagiarism_score, essay_text, submitted_at, exam_id and user_id of a
\* submission are fixed at creation: no later request (a submit of any student to any
\* exam, a grade that succeeds or fails, on this or another submission) changes them,
\* and no request deletes a submission.
C14_CreatedFieldsFixed ==
    [][/\ Len(submissions') >= Len(submissions)
       /\ \A i \in 1..Len(submissions) :
             Created(submissions'[i]) = Created(submissions[i])]_vars

\* C14 witness: a submission was graded, another student then submitted, and a grade
\* request has failed since
C14_Witness ==
    /\ Len(submissions) = 2
    /\ submissions[1].graded_at # Absent
    /\ \A g \in submissions[1].graded_at : g < submissions[2].submitted_at
    /\ last.op = "grade"
    /\ last.flash \in {InvalidScore, ScoreOutOfRange}

\* the first guard, in the order NotYetOpen, Closed, AlreadySubmitted, EmptyEssay,
\* that a submit of student u for exam e with this essay fails at the present time;
\* Submitted when none fails
FirstFailing(u, e, essay) ==
    IF clock < exams[e].open_at THEN NotYetOpen
    ELSE IF clock > exams[e].close_at THEN Closed
    ELSE IF HasSubmitted(u, e) THEN AlreadySubmitted
    ELSE IF ~HasText(essay) THEN EmptyEssay
    ELSE Submitted

\* C15: the guards of a submit are checked in the order NotYetOpen, Closed,
\* AlreadySubmitted, EmptyEssay and the first that fails decides the outcome: a
\* student who has submitted and posts again after close_at gets Closed, and a blank
\* essay of a student who has submitted gets AlreadySubmitted inside the window.
C15_GuardOrder ==
    [][LET u == last'.user
           e == last'.id
       IN  \A essay \in EssayInputs, elapsed \in 0..1 :
            (/\ u \in Students
             /\ e \in 1..Len(exams)
             /\ TakeExam(u, e, "POST", essay, elapsed))
            => (/\ last'.flash = FirstFailing(u, e, essay)
                /\ last'.flash # Submitted => submissions' = submissions)]_vars

\* C15 witness: a student who submitted when the exam opened posts again at the last
\* moment of the window and is told of the earlier submission
C15_Witness ==
    /\ last.op = "take_exam"
    /\ last.flash = AlreadySubmitted
    /\ last.now = exams[last.id].close_at
    /\ \E i \in 1..Len(submissions) :
          /\ submissions[i].exam_id = last.id
          /\ submissions[i].user_id = last.user
          /\ submissions[i].submitted_at = exams[last.id].open_at

\* the rearrangements of a sequence
Rearrangements(seq) ==
    {[i \in 1..Len(seq) |-> seq[f[i]]] :
        f \in {g \in [1..Len(seq) -> 1..Len(seq)] :
                 \A a, b \in 1..Len(seq) : g[a] = g[b] => a = b}}

\* the analyzed essay of submission i followed by those of the submissions stored
\* before it for the same exam
DocsAt(i) ==
    LET all == <<submissions[i].essay_text>>
                \o EssaysOf(SubSeq(submissions, 1, i - 1), submissions[i].exam_id)
    IN  [k \in 1..Len(all) |-> analyze(all[k])]

\* C16: on a successful submit whose similarity computation does not fail, the
\* stored plagiarism score is the maximum, over the essays stored for the same exam at
\* the time of the request, of the similarity of the new essay to that essay;
\* submissions of other exams never contribute, and the order in which the earlier
\* essays are listed does not matter.
C16_ScoreIsMaximum ==
    \A i \in 1..Len(submissions) :
        (Len(DocsAt(i)) > 1 /\ vocabulary(DocsAt(i)) # {})
        => (/\ \E k \in 2..Len(DocsAt(i)) :
                   submissions[i].plagiarism_score = cosine_similarity(DocsAt(i), 1, k)
            /\ \A k \in 2..Len(DocsAt(i)) :
                   submissions[i].plagiarism_score >= cosine_similarity(DocsAt(i), 1, k)
            /\ \A corpus \in Rearrangements(EssaysOf(SubSeq(submissions, 1, i - 1),
                                                     submissions[i].exam_id)) :
                   plagiarism_check(submissions[i].essay_text, corpus)
                       = submissions[i].plagiarism_score)

\* C16 witness: the third essay of an exam resembles the second more than the first,
\* neither fully, and its score is its similarity to the second
C16_Witness ==
    \E i \in 1..Len(submissions) :
        /\ Len(DocsAt(i)) = 3
        /\ cosine_similarity(DocsAt(i), 1, 2) < cosine_similarity(DocsAt(i), 1, 3)
        /\ submissions[i].plagiarism_score = cosine_similarity(DocsAt(i), 1, 3)
        /\ submissions[i].plagiarism_score < ScoreScale

\* C17: in every reachable state the grading fields of a submission are set
\* together: score is present iff graded_at is present iff graded_by is present, and
\* a graded_by that is present is the created_by of the submission's exam.
C17_GradingFieldsTogether ==
    \A i \in 1..Len(submissions) :
        /\ submissions[i].score # Absent <=> submissions[i].graded_at # Absent
        /\ submissions[i].graded_at # Absent <=> submissions[i].graded_by # Absent
        /\ submissions[i].score # Absent <=> submissions[i].comments # Absent
        /\ \A g \in submissions[i].graded_by :
              g = exams[submissions[i].exam_id].created_by

\* C17 witness: a member of staff who does not own the exam has tried to grade a
\* submission its owner had graded, next to a submission not yet graded
C17_Witness ==
    /\ last.op = "grade"
    /\ last.user = "t2"
    /\ last.flash = ErrorProcessingGrade
    /\ submissions[last.id].graded_by = {"t1"}
    /\ \E i \in 1..Len(submissions) : submissions[i].score = Absent

\* C18: every stored submission has open_at <= submitted_at <= close_at of its exam,
\* also when the clock advances while the submit request is processed.
C18_SubmittedInsideWindow ==
    \A i \in 1..Len(submissions) :
        /\ exams[submissions[i].exam_id].open_at <= submissions[i].submitted_at
        /\ submissions[i].submitted_at <= exams[submissions[i].exam_id].close_at

\* C19: of two submissions of one exam by different students, the one stored later
\* was scored against the one stored earlier: unless the engine failed, its
\* plagiarism score is at least the similarity of the two essays, also when the two
\* requests interleave.
C19_LaterScoredAgainstEarlier ==
    \A j \in 1..Len(submissions) :
        vocabulary(DocsAt(j)) # {}
        => \A k \in 2..Len(DocsAt(j)) :
              (\A i \in 1..(j - 1) :
                  submissions[i].exam_id = submissions[j].exam_id
                      => submissions[i].user_id # submissions[j].user_id)
              => submissions[j].plagiarism_score >= cosine_similarity(DocsAt(j), 1, k)

====
